---- MODULE Spec2Model ----
\* clevis-pin-trustee: the key resolution engine (fetch_luks_key,
\* try_fetch_from_servers), the key material decoder (fetch_and_prepare_jwk)
\* and the envelope codec (encrypt, decrypt) of cli/src/main.rs, with the
\* configuration model of lib/src/lib.rs.
EXTENDS Integers, Sequences, FiniteSets, TLC

\* ------------------------------------------------------------------ bounds
\* Longest server list of a configuration or of an envelope's metadata.
MaxServers == 2
\* Largest explicit num_retries a configuration carries.
MaxFinite == 2
\* Attempts followed under NumRetries::Infinity (the loop itself has no bound).
MaxInfinityAttempts == 12

\* --------------------------------------------------------------- constants
DEFAULT_TRIES == 10

\* ------------------------------------------------------------- JSON values
\* A JSON value as far as num_retries needs it: absent field, null, integer,
\* string. An integer above u32::MAX is beyond the integers of the model
\* checker and is the value JBigInt, told apart by its tag.
JAbsent == [t |-> "absent", n |-> 0, s |-> ""]
JNull == [t |-> "null", n |-> 0, s |-> ""]
JInt(k) == [t |-> "int", n |-> k, s |-> ""]
JBigInt == [t |-> "bigint", n |-> 0, s |-> ""]
JStr(x) == [t |-> "str", n |-> 0, s |-> x]

\* ---------------------------------------------------------------- lib.rs
\* enum NumRetries { Finite(u32), Infinity }
Finite(k) == [kind |-> "Finite", n |-> k]
Infinity == [kind |-> "Infinity", n |-> 0]
\* Option<NumRetries>::None
NoRetries == [kind |-> "None", n |-> 0]

Ok(v) == [ok |-> TRUE, val |-> v]
Err(e) == [ok |-> FALSE, val |-> e]

\* Faulty variant of visit_u64: zero is not rejected.
visit_u64_accepts_zero(value, above_u32) ==
    IF above_u32 THEN Err("number too large") ELSE Ok(Finite(value))

\* NumRetriesVisitor::visit_u64; above_u32 is value > u32::MAX as u64.
visit_u64(value, above_u32) ==
    IF ~above_u32 /\ value = 0 THEN Err("number must be at least 1")
    ELSE IF above_u32 THEN Err("number too large")
    ELSE Ok(Finite(value))

\* NumRetriesVisitor::visit_i64; above_u32 is value > u32::MAX as i64.
visit_i64(value, above_u32) ==
    IF ~above_u32 /\ value <= 0 THEN Err("number must be at least 1")
    ELSE IF above_u32 THEN Err("number too large")
    ELSE Ok(Finite(value))

\* Faulty variant of visit_str: every string is taken for "infinity".
visit_str_lenient(value) == Ok(Infinity)

\* NumRetriesVisitor::visit_str
visit_str(value) ==
    IF value = "infinity" THEN Ok(Infinity) ELSE Err("expected 'infinity'")

\* impl Deserialize for NumRetries: deserialize_any dispatches on the JSON
\* value; serde_json gives non-negative integers to visit_u64 and negative ones
\* to visit_i64; every other shape is an "invalid type" error of the visitor.
NumRetries_deserialize(j) ==
    CASE j.t = "bigint" -> visit_u64(j.n, TRUE)
      [] j.t = "int" /\ j.n >= 0 -> visit_u64(j.n, FALSE)
      [] j.t = "int" /\ j.n < 0 -> visit_i64(j.n, FALSE)
      [] j.t = "str" -> visit_str(j.s)
      [] OTHER -> Err("invalid type")

\* Option<NumRetries> field of Config and of ClevisHeader: a missing field and
\* null are None, anything else goes through NumRetries::deserialize.
OptNumRetries_deserialize(j) ==
    IF j.t \in {"absent", "null"} THEN Ok(NoRetries) ELSE NumRetries_deserialize(j)

\* impl Serialize for NumRetries, under Option: None is null, Finite(n) the
\* number n, Infinity the string "infinity".
OptNumRetries_serialize(r) ==
    CASE r.kind = "None" -> JNull
      [] r.kind = "Finite" -> JInt(r.n)
      [] r.kind = "Infinity" -> JStr("infinity")

\* ------------------------------------------------------------- Seq helpers
SeqsUpTo(S, k) == UNION {[1..m -> S] : m \in 0..k}

Range(f) == {f[i] : i \in DOMAIN f}

\* ------------------------------------------------------ Option<String> text
\* The content of an Option<String> that holds a document: nothing, the JSON
\* text of an object (entries in text order), text that is no JSON object, or
\* the TOML text of an Initdata document (entries in the order written).
NoneStr == [some |-> FALSE, fmt |-> "none", version |-> "", algorithm |-> "", entries |-> <<>>]
JsonObjText(pairs) ==
    [some |-> TRUE, fmt |-> "json", version |-> "", algorithm |-> "", entries |-> pairs]
GarbageText == [some |-> TRUE, fmt |-> "garbage", version |-> "", algorithm |-> "", entries |-> <<>>]
TomlText(version, algorithm, data) ==
    [some |-> TRUE, fmt |-> "toml", version |-> version, algorithm |-> algorithm, entries |-> data]

\* serde_json::from_str::<HashMap<String, String>>(s): the map as its set of
\* entries, or an error when s is no JSON object of strings.
HashMap_from_str(s) ==
    IF s.fmt = "json" THEN Ok(Range(s.entries)) ELSE Err("Failed to parse config initdata")

\* toml::to_string(&Initdata { version, algorithm, data }): the data table is
\* written in the iteration order of the HashMap, here the given order.
Initdata_to_toml(order) == TomlText("0.1.0", "sha256", order)

\* The iteration orders of a HashMap with entry set m.
HashOrders(m) == {p \in [1..Cardinality(m) -> m] : Range(p) = m}

\* ------------------------------------------------------------------ inputs
\* struct Server { url, cert }
ServerPool == {[url |-> "https://kbs1", cert |-> ""], [url |-> "https://kbs2", cert |-> "PEM"]}
ServerLists == SeqsUpTo(ServerPool, MaxServers)
Paths == {"default/luks/root", "default/luks/data"}
Plaintexts == {"pt1", "pt2"}

InitdataInputs ==
    { NoneStr, GarbageText,
      JsonObjText(<< <<"a", "1">> >>),
      JsonObjText(<< <<"a", "1">>, <<"b", "2">> >>) }

NumRetriesInputs ==
    {JAbsent, JNull, JStr("infinity"), JStr("forever"), JBigInt}
        \cup {JInt(k) : k \in (-1)..MaxFinite}

\* The config argument of encrypt: JSON text that is malformed or lacks a
\* required field (wellformed = FALSE), or an object with these fields.
MalformedConfig ==
    [wellformed |-> FALSE, servers |-> <<>>, path |-> "", initdata |-> NoneStr,
     num_retries |-> JAbsent]
ConfigInputs ==
    {MalformedConfig} \cup
    [wellformed : {TRUE}, servers : ServerLists, path : Paths,
     initdata : InitdataInputs, num_retries : NumRetriesInputs]

\* serde_json::from_str::<Config>(config)
Config_from_str(c) ==
    IF ~c.wellformed THEN Err("Failed to parse config JSON")
    ELSE LET nr == OptNumRetries_deserialize(c.num_retries) IN
         IF ~nr.ok THEN Err("Failed to parse config JSON")
         ELSE Ok([servers |-> c.servers, path |-> c.path, initdata |-> c.initdata,
                  num_retries |-> nr.val])

NoConfig == [servers |-> <<>>, path |-> "", initdata |-> NoneStr, num_retries |-> NoRetries]

\* ----------------------------------------------------------- key material
\* What a resolver call can print as the key.
KeyStrings == {"keyA", "keyB", "notBase64", "notUtf8", "notJson", "rsaKey"}

\* general_purpose::STANDARD.decode(&key)
base64_decode(key) ==
    IF key = "notBase64" THEN Err("Error decoding key in base64")
    ELSE Ok([bytes |-> key])

\* String::from_utf8(bytes)
from_utf8(b) ==
    IF b.bytes = "notUtf8" THEN Err("Error decoding the key in JSON")
    ELSE Ok([text |-> b.bytes])

\* serde_json::from_str::<Key>(&key): struct Key { key_type, key }
Key_from_str(t) ==
    CASE t.text = "keyA" -> Ok([key_type |-> "oct", key |-> "A"])
      [] t.text = "keyB" -> Ok([key_type |-> "oct", key |-> "B"])
      [] t.text = "rsaKey" -> Ok([key_type |-> "RSA", key |-> "R"])
      [] OTHER -> Err("Error in parsing the fetched key")

NoJwk == [kty |-> "", k |-> "", key_ops |-> {}]

\* Faulty variant of Jwk_from_key: the key operations name "encrypt" alone.
Jwk_from_key_encrypt_only(key) == [kty |-> key.key_type, k |-> key.key, key_ops |-> {"encrypt"}]

\* Jwk::new(&key.key_type); set_key_value(&key.key); set_key_operations(..)
Jwk_from_key(key) == [kty |-> key.key_type, k |-> key.key, key_ops |-> {"encrypt", "decrypt"}]

\* The decoding steps of fetch_and_prepare_jwk on a resolved key string.
prepare_jwk(key) ==
    LET b == base64_decode(key) IN
    IF ~b.ok THEN b
    ELSE LET t == from_utf8(b.val) IN
         IF ~t.ok THEN t
         ELSE LET k == Key_from_str(t.val) IN
              IF ~k.ok THEN k ELSE Ok(Jwk_from_key(k.val))

\* ---------------------------------------------------------------- envelope
\* struct ClevisHeader { pin, servers, path, initdata, num_retries }
NoHeader ==
    [pin |-> "", servers |-> <<>>, path |-> "", initdata |-> NoneStr, num_retries |-> NoRetries]

\* serde_json::value::to_value(private_hdr): the "clevis" claim.
ClevisHeader_to_value(h) ==
    [wellformed |-> TRUE, pin |-> h.pin, servers |-> h.servers, path |-> h.path,
     initdata |-> h.initdata, num_retries |-> OptNumRetries_serialize(h.num_retries)]

\* serde_json::from_value::<ClevisHeader>(hdr_clevis): a value that is no
\* object or lacks pin, servers or path (wellformed = FALSE) is an error, and so
\* is an initdata that is no string and a num_retries NumRetries rejects.
ClevisHeader_from_value(v) ==
    IF ~v.wellformed THEN Err("Error deserializing clevis header")
    ELSE LET nr == OptNumRetries_deserialize(v.num_retries) IN
         IF ~nr.ok THEN Err("Error deserializing clevis header")
         ELSE Ok([pin |-> v.pin, servers |-> v.servers, path |-> v.path,
                  initdata |-> v.initdata, num_retries |-> nr.val])

NoClevisValue ==
    [wellformed |-> FALSE, pin |-> "", servers |-> <<>>, path |-> "", initdata |-> NoneStr,
     num_retries |-> JAbsent]

\* The text on the input stream of decrypt: bytes that are no UTF-8, text whose
\* header does not decode, or a compact JWE: its header (alg, enc, the clevis
\* claim if any), the key its content is encrypted under (cek), the content
\* (payload), and whether header, iv, ciphertext and tag are as sealed (intact).
NoInput ==
    [utf8 |-> FALSE, header_ok |-> FALSE, alg |-> "", enc |-> "", has_clevis |-> FALSE,
     clevis |-> NoClevisValue, cek |-> "", payload |-> "", intact |-> FALSE]
\* alg and enc are the claims encrypt sets on the header it hands to
\* serialize_compact; neither is read back by decrypt.
Jwe(clevis, cek, payload, intact) ==
    [utf8 |-> TRUE, header_ok |-> TRUE, alg |-> "ECDH-ES", enc |-> "A256GCM",
     has_clevis |-> TRUE, clevis |-> clevis, cek |-> cek, payload |-> payload,
     intact |-> intact]
PlainInput(pt) == [NoInput EXCEPT !.utf8 = TRUE, !.payload = pt]

\* Dir.encrypter_from_jwk(&jwk) / Dir.decrypter_from_jwk(&jwk): the direct
\* algorithm takes a symmetric ("oct") key that allows the operation.
Dir_from_jwk(jwk, operation) ==
    IF jwk.kty = "oct" /\ operation \in jwk.key_ops THEN Ok(jwk) ELSE Err("Error creating " \o operation \o "er")

\* josekit::jwe::serialize_compact(&input, &hdr, &encrypter)
serialize_compact(input, clevis, encrypter) == Jwe(clevis, encrypter.k, input.payload, TRUE)

\* josekit::jwe::deserialize_compact(input, &decrypter): authenticated
\* decryption gives the payload only under the key the content was sealed with
\* and only when nothing the tag covers was changed.
deserialize_compact(input, decrypter) ==
    IF input.intact /\ input.cek = decrypter.k THEN Ok(input.payload)
    ELSE Err("Error decrypting JWE")

\* Envelopes that no encrypt of this model wrote (hand-made or damaged).
BaseClevisValue ==
    [wellformed |-> TRUE, pin |-> "trustee",
     servers |-> << [url |-> "https://kbs1", cert |-> ""] >>,
     path |-> "default/luks/root", initdata |-> NoneStr, num_retries |-> JAbsent]
ForeignClevisValues ==
    {[BaseClevisValue EXCEPT !.num_retries = r] :
        r \in {JAbsent, JNull, JInt(0), JInt(-1), JInt(1), JStr("infinity"), JStr("forever")}}
      \cup {[BaseClevisValue EXCEPT !.servers = sv] : sv \in ServerLists}
      \cup {[BaseClevisValue EXCEPT !.wellformed = FALSE], [BaseClevisValue EXCEPT !.pin = "tang"]}
ForeignInputs ==
    { NoInput, [NoInput EXCEPT !.utf8 = TRUE],
      [NoInput EXCEPT !.utf8 = TRUE, !.header_ok = TRUE, !.alg = "ECDH-ES", !.enc = "A256GCM"] }
      \cup {Jwe(c, "A", "pt1", i) : c \in ForeignClevisValues, i \in BOOLEAN}

\* ------------------------------------------------------------------- state
VARIABLES
    op,          \* the operation of the running process: "none", "encrypt", "decrypt"
    pc,          \* where it is: idle, fetch, try, attempt_failed, returned, jwk, done, failed
    input,       \* what it read from its input stream
    config_arg,  \* encrypt: the config argument of the command line, as given
    config,      \* encrypt: the parsed Config
    initdata,    \* encrypt: the init-data document serialized from config.initdata
    hdr_clevis,  \* decrypt: the ClevisHeader read from the envelope
    req,         \* the arguments fetch_luks_key was called with
    attempt,     \* fetch_luks_key: the attempt under way (from 1)
    index,       \* try_fetch_from_servers: the server to try next (from 1)
    attemptLog,  \* what the resolver answered to each call of the attempt under way
    calls,       \* resolver invocations of this run, per server of the list
    delays,      \* thread::sleep(DELAY) calls of this run
    result,      \* what fetch_luks_key returned
    jwk,         \* the key fetch_and_prepare_jwk returned
    error,       \* the error the operation ended with
    stdout,      \* the output stream of the running process
    stderr,      \* the key-bearing lines on its diagnostic stream
    sealed       \* the envelope the finished encrypt wrote, with the plaintext it
                 \* read, the request it resolved and the key string it got

vars ==
    <<op, pc, input, config_arg, config, initdata, hdr_clevis, req, attempt, index, attemptLog,
      calls, delays, result, jwk, error, stdout, stderr, sealed>>

NoReq == [servers |-> <<>>, path |-> "", initdata |-> NoneStr, num_retries |-> NoRetries]
NoResult == [state |-> "pending", key |-> "", msg |-> "", n |-> 0]
NoError == [msg |-> "none", n |-> 0]
NotSealed ==
    [present |-> FALSE, envelope |-> NoInput, plaintext |-> "", req |-> NoReq, key |-> ""]

\* What a call of CommandExecutor::try_fetch_luks_key can return: an error, or
\* the key the resolver printed.
Responses == {[ok |-> FALSE, key |-> ""]} \cup {[ok |-> TRUE, key |-> k] : k \in KeyStrings}

Init ==
    /\ op = "none"
    /\ pc = "idle"
    /\ input = NoInput
    /\ config_arg = MalformedConfig
    /\ config = NoConfig
    /\ initdata = NoneStr
    /\ hdr_clevis = NoHeader
    /\ req = NoReq
    /\ attempt = 0
    /\ index = 0
    /\ attemptLog = <<>>
    /\ calls = <<>>
    /\ delays = 0
    /\ result = NoResult
    /\ jwk = NoJwk
    /\ error = NoError
    /\ stdout = <<>>
    /\ stderr = {}
    /\ sealed = NotSealed

\* A process starts: nothing resolved, nothing written.
FreshRun(o, in) ==
    /\ op' = o
    /\ input' = in
    /\ attempt' = 0
    /\ index' = 0
    /\ attemptLog' = <<>>
    /\ calls' = <<>>
    /\ delays' = 0
    /\ result' = NoResult
    /\ jwk' = NoJwk
    /\ stdout' = <<>>
    /\ stderr' = {}

\* Faulty variant of encrypt_num_retries: another default.
encrypt_num_retries_three(c) ==
    IF c.num_retries.kind = "None" THEN Finite(3) ELSE c.num_retries

\* encrypt, unwrap_or(&NumRetries::Finite(DEFAULT_TRIES)) on config.num_retries
encrypt_num_retries(c) ==
    IF c.num_retries.kind = "None" THEN Finite(DEFAULT_TRIES) ELSE c.num_retries

\* Faulty variant of decrypt_num_retries: decrypt defaults to Infinity.
decrypt_num_retries_infinity(h) ==
    IF h.num_retries.kind = "None" THEN Infinity ELSE h.num_retries

\* decrypt, unwrap_or(&NumRetries::Finite(DEFAULT_TRIES)) on hdr_clevis.num_retries
decrypt_num_retries(h) ==
    IF h.num_retries.kind = "None" THEN Finite(DEFAULT_TRIES) ELSE h.num_retries

\* encrypt up to its call of fetch_and_prepare_jwk: parse the config, turn its
\* initdata into the Initdata document, read the plaintext, pick the policy.
encrypt_begin ==
    /\ pc = "idle"
    /\ \E c \in ConfigInputs, pt \in Plaintexts :
         LET parsed == Config_from_str(c)
             data == IF parsed.ok /\ parsed.val.initdata.some
                     THEN HashMap_from_str(parsed.val.initdata)
                     ELSE Ok({})
         IN  /\ FreshRun("encrypt", IF parsed.ok /\ data.ok THEN PlainInput(pt) ELSE NoInput)
             /\ config_arg' = c
             /\ hdr_clevis' = NoHeader
             /\ sealed' = NotSealed
             /\ IF ~parsed.ok
                THEN /\ pc' = "failed"
                     /\ error' = [msg |-> parsed.val, n |-> 0]
                     /\ config' = NoConfig
                     /\ initdata' = NoneStr
                     /\ req' = NoReq
                ELSE IF ~data.ok
                THEN /\ pc' = "failed"
                     /\ error' = [msg |-> data.val, n |-> 0]
                     /\ config' = parsed.val
                     /\ initdata' = NoneStr
                     /\ req' = NoReq
                ELSE \E order \in HashOrders(data.val) :
                     LET doc == IF parsed.val.initdata.some
                                THEN Initdata_to_toml(order) ELSE NoneStr
                     IN  /\ pc' = "fetch"
                         /\ error' = NoError
                         /\ config' = parsed.val
                         /\ initdata' = doc
                         /\ req' = [servers |-> parsed.val.servers, path |-> parsed.val.path,
                                    initdata |-> doc,
                                    num_retries |-> encrypt_num_retries(parsed.val)]

\* The inputs a decrypt is started on: a foreign text when nothing was sealed,
\* else the envelope the encrypt wrote, as written or damaged on the way.
DecryptInputs ==
    IF pc = "idle" THEN ForeignInputs
    ELSE {stdout[1], [stdout[1] EXCEPT !.intact = FALSE]}

\* decrypt up to its call of fetch_and_prepare_jwk: read the envelope, decode
\* its header, take the clevis claim, rebuild the ClevisHeader, pick the policy.
decrypt_begin ==
    /\ IF pc = "idle" THEN TRUE ELSE op = "encrypt" /\ pc = "done"
    /\ \E in \in DecryptInputs :
         LET h == ClevisHeader_from_value(in.clevis)
             msg == CASE ~in.utf8 -> "Input is not valid UTF-8"
                      [] in.utf8 /\ ~in.header_ok -> "Error decoding header"
                      [] in.utf8 /\ in.header_ok /\ ~in.has_clevis -> "Error getting clevis claim"
                      [] in.utf8 /\ in.header_ok /\ in.has_clevis /\ ~h.ok -> h.val
                      [] OTHER -> "none"
         IN  /\ FreshRun("decrypt", in)
             /\ config_arg' = MalformedConfig
             /\ config' = NoConfig
             /\ initdata' = NoneStr
             /\ UNCHANGED sealed
             /\ IF msg # "none"
                THEN /\ pc' = "failed"
                     /\ error' = [msg |-> msg, n |-> 0]
                     /\ hdr_clevis' = NoHeader
                     /\ req' = NoReq
                ELSE /\ pc' = "fetch"
                     /\ error' = NoError
                     /\ hdr_clevis' = h.val
                     /\ req' = [servers |-> h.val.servers, path |-> h.val.path,
                                initdata |-> h.val.initdata,
                                num_retries |-> decrypt_num_retries(h.val)]

\* ------------------------------------------------------- resolution engine
\* Faulty variant of is_empty: the check for an empty server list is lost.
is_empty_unchecked(servers) == FALSE

\* servers.is_empty(), the first check of fetch_luks_key
is_empty(servers) == Len(servers) = 0

\* fetch_luks_key, entry: the empty-list check, then the first attempt. An
\* empty range 1..=0 makes find_map return None at once.
fetch_luks_key_enter ==
    /\ pc = "fetch"
    /\ calls' = [i \in 1..Len(req.servers) |-> 0]
    /\ IF is_empty(req.servers)
       THEN /\ pc' = "returned"
            /\ result' = [state |-> "err", key |-> "", msg |-> "No URLs provided", n |-> 0]
            /\ UNCHANGED <<attempt, index>>
       ELSE IF req.num_retries.kind = "Finite" /\ req.num_retries.n < 1
       THEN /\ pc' = "returned"
            /\ result' = [state |-> "err", key |-> "",
                          msg |-> "Failed to fetch the LUKS key from all URLs after {} attempts",
                          n |-> req.num_retries.n]
            /\ UNCHANGED <<attempt, index>>
       ELSE /\ pc' = "try"
            /\ attempt' = 1
            /\ index' = 1
            /\ UNCHANGED result
    /\ UNCHANGED <<op, input, config_arg, config, initdata, hdr_clevis, req, attemptLog, delays, jwk,
                   error, stdout, stderr, sealed>>

\* Faulty variant of after_call: a success does not stop the loop over the servers, the
\* answer of the last server decides.
after_call_no_return(r, i, n) ==
    IF i < n THEN "next" ELSE IF r.ok THEN "some" ELSE "none"

\* Faulty variant of after_call: a key that does not decode counts as a failed
\* server, so the loop goes on to the next one.
after_call_decodes(r, i, n) ==
    IF r.ok /\ prepare_jwk(r.key).ok THEN "some" ELSE IF i < n THEN "next" ELSE "none"

\* Faulty variant of after_call: the first failing server ends the attempt.
after_call_fails_fast(r, i, n) == IF r.ok THEN "some" ELSE "none"

\* try_fetch_from_servers, one turn of its loop: what it does with the answer r
\* of server number index: return Some(key) on Ok, go to the next server on
\* Err, return None after the last one.
after_call(r, i, n) ==
    IF r.ok THEN "some" ELSE IF i < n THEN "next" ELSE "none"

\* try_fetch_from_servers, one turn of its loop: one resolver call. The
\* production executor copies the resolver's output to the diagnostic stream.
try_fetch_from_servers ==
    /\ pc = "try"
    /\ \E r \in Responses :
         LET then == after_call(r, index, Len(req.servers)) IN
         /\ calls' = [calls EXCEPT ![index] = @ + 1]
         /\ attemptLog' = Append(attemptLog, r)
         /\ stderr' = IF r.ok THEN stderr \cup {r.key} ELSE stderr
         /\ result' = IF then = "some"
                      THEN [state |-> "ok", key |-> r.key, msg |-> "", n |-> 0]
                      ELSE result
         /\ pc' = CASE then = "some" -> "returned"
                    [] then = "next" -> "try"
                    [] OTHER -> "attempt_failed"
         /\ index' = IF then = "next" THEN index + 1 ELSE index
    /\ UNCHANGED <<op, input, config_arg, config, initdata, hdr_clevis, req, attempt, delays, jwk,
                   error, stdout, sealed>>

\* Faulty variant of retries_again: the attempt bound is off by one.
retries_again_off_by_one(num_retries, a) ==
    IF num_retries.kind = "Finite" THEN a <= num_retries.n ELSE TRUE

\* Faulty variant of retries_again: Infinity gives up after DEFAULT_TRIES attempts.
retries_again_bounded(num_retries, a) ==
    IF num_retries.kind = "Finite" THEN a < num_retries.n ELSE a < DEFAULT_TRIES

\* Faulty variant of retries_again: Infinity makes a single attempt.
retries_again_once(num_retries, a) ==
    IF num_retries.kind = "Finite" THEN a < num_retries.n ELSE FALSE

\* Faulty variant of retries_again: Finite(n) counts to DEFAULT_TRIES, not to n.
retries_again_default(num_retries, a) ==
    IF num_retries.kind = "Finite" THEN a < DEFAULT_TRIES ELSE TRUE

\* fetch_luks_key after an attempt in which every server failed: whether
\* another attempt follows. Finite: the range 1..=max_attempts has a next
\* element. Infinity: the loop goes on.
retries_again(num_retries, a) ==
    IF num_retries.kind = "Finite" THEN a < num_retries.n ELSE TRUE

\* Faulty variant of sleeps: the delay is taken after the last attempt too.
sleeps_always(num_retries, a) == TRUE

\* fetch_luks_key after an attempt in which every server failed: whether it
\* calls thread::sleep(DELAY). Finite: if attempt < max_attempts. Infinity:
\* always.
sleeps(num_retries, a) ==
    IF num_retries.kind = "Finite" THEN a < num_retries.n ELSE TRUE

\* Faulty variant of fetch_luks_key_next: the next attempt resumes at the server
\* tried last, not at the first one.
fetch_luks_key_next_resumes ==
    /\ pc = "attempt_failed"
    /\ delays' = IF sleeps(req.num_retries, attempt) THEN delays + 1 ELSE delays
    /\ IF retries_again(req.num_retries, attempt)
       THEN /\ req.num_retries.kind = "Infinity" => attempt < MaxInfinityAttempts
            /\ attempt' = attempt + 1
            /\ index' = index
            /\ attemptLog' = <<>>
            /\ pc' = "try"
            /\ UNCHANGED result
       ELSE /\ pc' = "returned"
            /\ result' = [state |-> "err", key |-> "",
                          msg |-> "Failed to fetch the LUKS key from all URLs after {} attempts",
                          n |-> req.num_retries.n]
            /\ UNCHANGED <<attempt, index, attemptLog>>
    /\ UNCHANGED <<op, input, config_arg, config, initdata, hdr_clevis, req, calls, jwk,
                   error, stdout, stderr, sealed>>

\* fetch_luks_key, the end of a failed attempt: sleep and start the next
\* attempt from the first server, or return the error naming max_attempts.
fetch_luks_key_next ==
    /\ pc = "attempt_failed"
    /\ delays' = IF sleeps(req.num_retries, attempt) THEN delays + 1 ELSE delays
    /\ IF retries_again(req.num_retries, attempt)
       THEN /\ req.num_retries.kind = "Infinity" => attempt < MaxInfinityAttempts
            /\ attempt' = attempt + 1
            /\ index' = 1
            /\ attemptLog' = <<>>
            /\ pc' = "try"
            /\ UNCHANGED result
       ELSE /\ pc' = "returned"
            /\ result' = [state |-> "err", key |-> "",
                          msg |-> "Failed to fetch the LUKS key from all URLs after {} attempts",
                          n |-> req.num_retries.n]
            /\ UNCHANGED <<attempt, index, attemptLog>>
    /\ UNCHANGED <<op, input, config_arg, config, initdata, hdr_clevis, req, calls, jwk, error, stdout,
                   stderr, sealed>>

\* ------------------------------------------------------ key material decoder
\* Faulty variant of fetch_and_prepare_jwk: when resolution fails, a decrypt of the
\* sealed envelope falls back on the key string kept from encrypt.
fetch_and_prepare_jwk_cached ==
    /\ pc = "returned"
    /\ LET cached == result.state = "err" /\ op = "decrypt" /\ sealed.present
           key == IF cached THEN sealed.key ELSE result.key
       IN  IF result.state = "err" /\ ~cached
           THEN /\ pc' = "failed"
                /\ error' = [msg |-> result.msg, n |-> result.n]
                /\ UNCHANGED <<jwk, stderr>>
           ELSE LET j == prepare_jwk(key)
                IN  /\ stderr' = stderr
                    /\ IF j.ok
                       THEN /\ pc' = "jwk"
                            /\ jwk' = j.val
                            /\ UNCHANGED error
                       ELSE /\ pc' = "failed"
                            /\ error' = [msg |-> j.val, n |-> 0]
                            /\ UNCHANGED jwk
    /\ UNCHANGED <<op, input, config_arg, config, initdata, hdr_clevis, req, attempt, index, attemptLog,
                   calls, delays, result, stdout, sealed>>

\* fetch_and_prepare_jwk after fetch_luks_key returned: its error ends the
\* operation; a key is decoded (base64, UTF-8, JSON) into the Jwk, and a
\* decoding error ends the operation. The decoded text is printed to the
\* diagnostic stream before it is parsed.
fetch_and_prepare_jwk ==
    /\ pc = "returned"
    /\ IF result.state = "err"
       THEN /\ pc' = "failed"
            /\ error' = [msg |-> result.msg, n |-> result.n]
            /\ UNCHANGED <<jwk, stderr>>
       ELSE LET b == base64_decode(result.key)
                t == IF b.ok THEN from_utf8(b.val) ELSE b
                j == prepare_jwk(result.key)
            IN  /\ stderr' = IF t.ok THEN stderr \cup {"Key: " \o t.val.text} ELSE stderr
                /\ IF j.ok
                   THEN /\ pc' = "jwk"
                        /\ jwk' = j.val
                        /\ UNCHANGED error
                   ELSE /\ pc' = "failed"
                        /\ error' = [msg |-> j.val, n |-> 0]
                        /\ UNCHANGED jwk
    /\ UNCHANGED <<op, input, config_arg, config, initdata, hdr_clevis, req, attempt, index, attemptLog,
                   calls, delays, result, stdout, sealed>>

\* ---------------------------------------------------------- envelope codec
\* Faulty variant of private_hdr: the retry policy in force is embedded, not the
\* configuration's optional field.
private_hdr_effective_retries(c, doc) ==
    [pin |-> "trustee", servers |-> c.servers, path |-> c.path, initdata |-> doc,
     num_retries |-> IF c.num_retries.kind = "None" THEN Finite(DEFAULT_TRIES)
                     ELSE c.num_retries]

\* encrypt: the ClevisHeader it embeds.
private_hdr(c, doc) ==
    [pin |-> "trustee", servers |-> c.servers, path |-> c.path, initdata |-> doc,
     num_retries |-> c.num_retries]

\* encrypt after fetch_and_prepare_jwk: print the jwk, make the encrypter,
\* build the header with the clevis claim, seal the input and write the token.
encrypt_seal ==
    /\ op = "encrypt"
    /\ pc = "jwk"
    /\ stderr' = stderr \cup {"jwk: " \o jwk.k}
    /\ LET encrypter == Dir_from_jwk(jwk, "encrypt") IN
       IF ~encrypter.ok
       THEN /\ pc' = "failed"
            /\ error' = [msg |-> encrypter.val, n |-> 0]
            /\ UNCHANGED <<stdout, sealed>>
       ELSE LET jwe_token == serialize_compact(
                                 input, ClevisHeader_to_value(private_hdr(config, initdata)),
                                 encrypter.val)
            IN  /\ stdout' = Append(stdout, jwe_token)
                /\ sealed' = [present |-> TRUE, envelope |-> jwe_token,
                              plaintext |-> input.payload, req |-> req, key |-> result.key]
                /\ pc' = "done"
                /\ UNCHANGED error
    /\ UNCHANGED <<op, input, config_arg, config, initdata, hdr_clevis, req, attempt, index, attemptLog,
                   calls, delays, result, jwk>>

\* Faulty variant of decrypt_output: what came back is written before it is checked.
decrypt_output_unchecked(out, opened) == Append(out, opened.val)

\* decrypt: deserialize_compact(..)? then write_all(&payload): the payload is
\* written only when the envelope opened.
decrypt_output(out, opened) == IF opened.ok THEN Append(out, opened.val) ELSE out

\* Faulty variant of decrypt_open: an envelope that does not open is treated
\* as a failed attempt of the resolution, which then goes on with its policy.
decrypt_open_retries ==
    /\ op = "decrypt"
    /\ pc = "jwk"
    /\ LET decrypter == Dir_from_jwk(jwk, "decrypt")
           opened == IF decrypter.ok THEN deserialize_compact(input, decrypter.val)
                     ELSE decrypter
       IN  /\ stdout' = decrypt_output(stdout, opened)
           /\ pc' = IF opened.ok THEN "done" ELSE "attempt_failed"
    /\ UNCHANGED <<op, input, config_arg, config, initdata, hdr_clevis, req, attempt, index, attemptLog,
                   calls, delays, result, jwk, error, stderr, sealed>>

\* decrypt after fetch_and_prepare_jwk: make the decrypter, open the envelope
\* and write the payload.
decrypt_open ==
    /\ op = "decrypt"
    /\ pc = "jwk"
    /\ LET decrypter == Dir_from_jwk(jwk, "decrypt")
           opened == IF decrypter.ok THEN deserialize_compact(input, decrypter.val)
                     ELSE decrypter
       IN  /\ stdout' = decrypt_output(stdout, opened)
           /\ IF ~opened.ok
              THEN /\ pc' = "failed"
                   /\ error' = [msg |-> opened.val, n |-> 0]
              ELSE /\ pc' = "done"
                   /\ UNCHANGED error
    /\ UNCHANGED <<op, input, config_arg, config, initdata, hdr_clevis, req, attempt, index, attemptLog,
                   calls, delays, result, jwk, stderr, sealed>>

\* ------------------------------------------------------------ specification
Next ==
    \/ encrypt_begin
    \/ decrypt_begin
    \/ fetch_luks_key_enter
    \/ try_fetch_from_servers
    \/ fetch_luks_key_next
    \/ fetch_and_prepare_jwk
    \/ encrypt_seal
    \/ decrypt_open

Spec == Init /\ [][Next]_vars

\* The steps of fetch_luks_key are taken when they can be: the program runs on,
\* every resolver call returns and every thread::sleep ends.
FairSpec ==
    /\ Spec
    /\ WF_vars(fetch_luks_key_enter)
    /\ WF_vars(try_fetch_from_servers)
    /\ WF_vars(fetch_luks_key_next)

\* ================================================================== claims
AllFailedMsg == "Failed to fetch the LUKS key from all URLs after {} attempts"
NoServersMsg == "No URLs provided"

\* fetch_luks_key has been entered and has not yet returned.
Resolving == pc \in {"try", "attempt_failed"}

\* C1: whenever a resolver call of the attempt under way has succeeded, it is
\* the call to server k = the last one made in that attempt, every call to
\* servers 1..k-1 in that attempt failed, no further call or attempt was made,
\* and fetch_luks_key returned exactly the key of that call.
C1_FirstSuccessIsReturned ==
    \A k \in 1..Len(attemptLog) :
        attemptLog[k].ok =>
            /\ k = Len(attemptLog)
            /\ index = k
            /\ \A i \in 1..(k - 1) : ~attemptLog[i].ok
            /\ ~Resolving
            /\ result.state = "ok"
            /\ result.key = attemptLog[k].key

\* C1 witness: in a second attempt server 1 fails, server 2 succeeds, and its
\* key is what fetch_luks_key returned.
C1_Witness ==
    /\ attempt = 2
    /\ Len(attemptLog) = 2
    /\ ~attemptLog[1].ok
    /\ attemptLog[2].ok
    /\ result.state = "ok"
    /\ result.key = attemptLog[2].key

\* C2: with Finite(n), n >= 1, and a non-empty server list, no server is ever
\* invoked more than n times, and when fetch_luks_key returns an error it has
\* made exactly n attempts, every server was invoked exactly n times, and the
\* error is the all-servers-failed error naming n.
C2_FiniteFailsAfterExactlyN ==
    (req.num_retries.kind = "Finite" /\ req.num_retries.n >= 1 /\ Len(req.servers) > 0
       /\ Len(calls) = Len(req.servers)) =>
        /\ \A i \in 1..Len(calls) : calls[i] <= req.num_retries.n
        /\ attempt <= req.num_retries.n
        /\ result.state = "err" =>
              /\ result.msg = AllFailedMsg
              /\ result.n = req.num_retries.n
              /\ attempt = req.num_retries.n
              /\ \A i \in 1..Len(calls) : calls[i] = req.num_retries.n

\* C2 witness: Finite(2), two servers, the error returned after 2 attempts.
C2_Witness ==
    /\ req.num_retries = Finite(2)
    /\ Len(req.servers) = 2
    /\ result.state = "err"
    /\ result.n = 2
    /\ calls = <<2, 2>>
    /\ pc = "failed"
    /\ error = [msg |-> AllFailedMsg, n |-> 2]

\* C3: with Infinity and a non-empty server list fetch_luks_key never returns
\* an error, it has returned only if a call succeeded, and every step taken
\* after an attempt in which all servers failed is: sleep once, then start the
\* next attempt at the first server.
C3_InfinityNeverFails ==
    [][ (req.num_retries.kind = "Infinity" /\ Len(req.servers) > 0) =>
          /\ result.state # "err"
          /\ (pc \in {"returned", "jwk", "done", "failed"} => result.state = "ok")
          /\ (pc = "attempt_failed" =>
                /\ pc' = "try"
                /\ attempt' = attempt + 1
                /\ index' = 1
                /\ delays' = delays + 1
                /\ result'.state = "pending") ]_vars

\* C3 witness: under Infinity more attempts than DEFAULT_TRIES have all failed
\* and the engine is in the next one.
C3_Witness ==
    /\ req.num_retries.kind = "Infinity"
    /\ attempt > DEFAULT_TRIES
    /\ delays = attempt - 1
    /\ \A i \in 1..Len(calls) : calls[i] >= DEFAULT_TRIES
    /\ pc = "try"
    /\ result.state = "pending"

\* C4: when fetch_luks_key is called with an empty server list, under any retry
\* policy, no resolver call and no delay ever happens, and what it returns is
\* the no-servers error, with which the operation fails.
C4_NoServers ==
    (Len(req.servers) = 0 /\ pc # "idle") =>
        /\ ~Resolving
        /\ attemptLog = <<>>
        /\ calls = <<>>
        /\ delays = 0
        /\ attempt = 0
        /\ pc \notin {"jwk", "done"}
        /\ result.state # "ok"
        /\ result.state = "err" => result.msg = NoServersMsg
        /\ (pc = "failed" /\ req # NoReq) => error = [msg |-> NoServersMsg, n |-> 0]

\* C4 witness: an encrypt with an empty server list and policy Infinity has
\* failed with the no-servers error.
C4_Witness ==
    /\ op = "encrypt"
    /\ req.servers = <<>>
    /\ req.num_retries.kind = "Infinity"
    /\ pc = "failed"
    /\ error.msg = NoServersMsg
    /\ calls = <<>>
    /\ delays = 0

\* The running process is a decrypt reading exactly the envelope the encrypt
\* before it wrote.
OpensSealed == op = "decrypt" /\ sealed.present /\ input = sealed.envelope

\* C5: a decrypt of the envelope encrypt wrote, whose resolution returned the
\* same key string encrypt got, ends successfully with exactly the plaintext
\* encrypt read on its output stream.
C5_RoundTrip ==
    (OpensSealed /\ result.state = "ok" /\ result.key = sealed.key
       /\ pc \in {"done", "failed"}) =>
        /\ pc = "done"
        /\ error = NoError
        /\ stdout = <<sealed.plaintext>>

\* C5 witness: decrypt has written the plaintext "pt2" that encrypt sealed
\* under a configuration with init-data, after one failed attempt.
C5_Witness ==
    /\ OpensSealed
    /\ result.state = "ok"
    /\ result.key = sealed.key
    /\ pc = "done"
    /\ sealed.plaintext = "pt2"
    /\ stdout = <<"pt2">>
    /\ sealed.req.initdata.some
    /\ attempt = 2

\* C6: the request decrypt hands to fetch_luks_key for the envelope encrypt
\* wrote (servers with certificates, path, init-data document, retry policy
\* after the default is applied) is the request encrypt handed to it.
C6_SameRequest ==
    OpensSealed =>
        /\ req.servers = sealed.req.servers
        /\ req.path = sealed.req.path
        /\ req.initdata = sealed.req.initdata
        /\ req.num_retries = sealed.req.num_retries

\* C6 witness: the envelope has no num_retries and both ends resolve under
\* Finite(10); the init-data document has two entries, written in the other
\* order than the configuration's text; two servers, one with a certificate.
C6_Witness ==
    /\ OpensSealed
    /\ hdr_clevis.num_retries = NoRetries
    /\ req.num_retries = Finite(10)
    /\ sealed.req.num_retries = Finite(10)
    /\ req.initdata.fmt = "toml"
    /\ req.initdata.entries = << <<"b", "2">>, <<"a", "1">> >>
    /\ Len(req.servers) = 2
    /\ req.servers[2].cert = "PEM"

\* The clevis claim of the envelope a finished encrypt wrote.
Embedded == stdout[1].clevis

\* C7 as stated: every field of the embedded metadata block equals the parsed
\* configuration's field (and the pin is "trustee").
C7_EmbeddedEqualsConfig ==
    (op = "encrypt" /\ pc = "done") =>
        /\ Embedded.pin = "trustee"
        /\ Embedded.servers = config.servers
        /\ Embedded.path = config.path
        /\ Embedded.initdata = config.initdata
        /\ Embedded.num_retries = OptNumRetries_serialize(config.num_retries)

\* C7 amended: the embedded metadata block carries the pin "trustee", and the
\* server list, path and num_retries equal to the parsed configuration's
\* fields; its init-data is absent when the configuration's is, and is
\* otherwise the Initdata document (version "0.1.0", algorithm "sha256", data =
\* the entries of the configuration's initdata) that encrypt serialized once and
\* handed to the resolution engine.
C7_EmbeddedFromConfig ==
    (op = "encrypt" /\ pc = "done") =>
        /\ Embedded.pin = "trustee"
        /\ Embedded.servers = config.servers
        /\ Embedded.path = config.path
        /\ Embedded.num_retries = OptNumRetries_serialize(config.num_retries)
        /\ Embedded.initdata = req.initdata
        /\ Embedded.initdata.some = config.initdata.some
        /\ config.initdata.some =>
              /\ Embedded.initdata.fmt = "toml"
              /\ Embedded.initdata.version = "0.1.0"
              /\ Embedded.initdata.algorithm = "sha256"
              /\ Range(Embedded.initdata.entries) = Range(config.initdata.entries)
              /\ Len(Embedded.initdata.entries) = Len(config.initdata.entries)

\* C7 witness: encrypt has written an envelope for a configuration with
\* init-data, a certificate and no num_retries.
C7_Witness ==
    /\ op = "encrypt"
    /\ pc = "done"
    /\ config.initdata.some
    /\ config.num_retries = NoRetries
    /\ Embedded.num_retries = JNull
    /\ Len(config.servers) = 2
    /\ config.servers[1].cert = "PEM"

\* C8: the output stream is empty until the operation has succeeded, and when
\* it has, exactly one write was made, after resolution returned a key, the key
\* was decoded into the jwk, and the cryptographic step succeeded with it.
C8_AllOrNothing ==
    /\ pc # "done" => stdout = <<>>
    /\ pc = "done" =>
          /\ Len(stdout) = 1
          /\ error = NoError
          /\ result.state = "ok"
          /\ prepare_jwk(result.key).ok
          /\ jwk = prepare_jwk(result.key).val
          /\ Dir_from_jwk(jwk, op).ok
          /\ op = "decrypt" =>
                /\ deserialize_compact(input, jwk).ok
                /\ stdout[1] = input.payload

\* C8 witness: a decrypt whose resolution and key decoding succeeded has failed
\* in authenticated decryption, with nothing written.
C8_Witness ==
    /\ op = "decrypt"
    /\ pc = "failed"
    /\ result.state = "ok"
    /\ jwk # NoJwk
    /\ error.msg = "Error decrypting JWE"
    /\ stdout = <<>>

\* C9: a decrypt whose metadata was read and names at least one server has, when
\* it holds a key or has ended, invoked the resolver; the key it holds is decoded
\* from the answer of the last resolver call of this run; and when resolution
\* returned an error decrypt has failed with that error and written nothing, also
\* for an envelope whose encrypt succeeded.
C9_LiveResolution ==
    (op = "decrypt" /\ Len(req.servers) > 0 /\ pc \in {"jwk", "done", "failed"}) =>
        /\ calls[1] >= 1
        /\ attemptLog # <<>>
        /\ pc \in {"jwk", "done"} =>
              /\ attemptLog[Len(attemptLog)].ok
              /\ result.key = attemptLog[Len(attemptLog)].key
              /\ jwk = prepare_jwk(attemptLog[Len(attemptLog)].key).val
        /\ result.state = "err" =>
              /\ pc = "failed"
              /\ error = [msg |-> AllFailedMsg, n |-> req.num_retries.n]
              /\ stdout = <<>>

\* C9 witness: the decrypt of an envelope that encrypt sealed has failed, under
\* a finite policy, because every resolver call failed.
C9_Witness ==
    /\ OpensSealed
    /\ req.num_retries.kind = "Finite"
    /\ pc = "failed"
    /\ result.state = "err"
    /\ \A i \in 1..Len(calls) : calls[i] = req.num_retries.n
    /\ stdout = <<>>

\* num_retries was omitted: from the configuration of the running encrypt, or
\* from the metadata of the envelope the running decrypt reads.
RetriesOmitted ==
    IF op = "encrypt" THEN config.num_retries = NoRetries
    ELSE op = "decrypt" /\ hdr_clevis.num_retries = NoRetries

\* C10: when num_retries is omitted, encrypt and decrypt resolve under
\* Finite(10): never more than 10 attempts, and the all-servers-failed error
\* only after exactly 10 attempts in which every server was invoked, naming 10.
C10_DefaultIsTen ==
    (RetriesOmitted /\ Len(req.servers) > 0) =>
        /\ req.num_retries = Finite(10)
        /\ attempt <= 10
        /\ result.state = "err" =>
              /\ attempt = 10
              /\ result = [state |-> "err", key |-> "", msg |-> AllFailedMsg, n |-> 10]
              /\ calls = [i \in 1..Len(req.servers) |-> 10]
              /\ pc = "failed" => error = [msg |-> AllFailedMsg, n |-> 10]

\* C10 witness: encrypt sealed under a configuration without num_retries, and
\* the decrypt of its envelope has failed after 10 attempts.
C10_Witness ==
    /\ OpensSealed
    /\ sealed.envelope.clevis.num_retries = JNull
    /\ hdr_clevis.num_retries = NoRetries
    /\ pc = "failed"
    /\ attempt = 10
    /\ calls = [i \in 1..Len(req.servers) |-> 10]
    /\ error = [msg |-> AllFailedMsg, n |-> 10]


\* The num_retries values the configuration model must reject: zero, a
\* negative integer, a string other than "infinity".
BadNumRetries(j) ==
    \/ j.t = "int" /\ j.n <= 0
    \/ j.t = "str" /\ j.s # "infinity"

\* fetch_luks_key has been called in this run.
EngineEntered ==
    pc \in {"fetch", "try", "attempt_failed", "returned", "jwk", "done"}
        \/ result.state # "pending"

\* C11: an encrypt whose configuration has a num_retries of 0, a negative
\* number or a string other than "infinity" has failed in parsing the
\* configuration: fetch_luks_key was not called, no resolver call and no delay
\* happened; and whenever fetch_luks_key has been called, by encrypt or by
\* decrypt, its policy is Infinity or Finite(n) with n >= 1.
C11_BadRetriesRejected ==
    /\ (op = "encrypt" /\ config_arg.wellformed /\ BadNumRetries(config_arg.num_retries)) =>
          /\ pc = "failed"
          /\ error = [msg |-> "Failed to parse config JSON", n |-> 0]
          /\ ~EngineEntered
          /\ req = NoReq
          /\ calls = <<>>
          /\ attemptLog = <<>>
          /\ delays = 0
          /\ stdout = <<>>
    /\ EngineEntered =>
          \/ req.num_retries = Infinity
          \/ req.num_retries.kind = "Finite" /\ req.num_retries.n >= 1

\* C11 witness: an encrypt given num_retries 0 on a configuration that is
\* otherwise valid and names a server has failed before any resolution.
C11_Witness ==
    /\ op = "encrypt"
    /\ config_arg.wellformed
    /\ config_arg.num_retries = JInt(0)
    /\ Len(config_arg.servers) > 0
    /\ ~config_arg.initdata.some
    /\ pc = "failed"
    /\ ~EngineEntered
    /\ calls = <<>>


DecodeErrors ==
    {"Error decoding key in base64", "Error decoding the key in JSON",
     "Error in parsing the fetched key"}

\* The resolver calls made when the run is in attempt a and has called servers
\* 1..i of that attempt: a calls to each of them, a - 1 to each later server.
CallsUpTo(a, i) == [j \in 1..Len(req.servers) |-> IF j <= i THEN a ELSE a - 1]

\* C12: when a resolver call has returned a key that fails base64 decoding,
\* UTF-8 decoding or JSON parsing, that call is the last one of the run and
\* fetch_luks_key returned its key as a success; the resolver calls and delays
\* made are exactly those up to that call (no later server, attempt or delay);
\* and the operation, once past decoding, has failed with the decoding error of
\* that step, which is not the all-servers-failed error, with nothing written.
C12_DecodeErrorIsTerminal ==
    \A k \in 1..Len(attemptLog) :
        (attemptLog[k].ok /\ ~prepare_jwk(attemptLog[k].key).ok) =>
            /\ k = Len(attemptLog)
            /\ index = k
            /\ result = [state |-> "ok", key |-> attemptLog[k].key, msg |-> "", n |-> 0]
            /\ calls = CallsUpTo(attempt, k)
            /\ delays = attempt - 1
            /\ pc \in {"returned", "failed"}
            /\ jwk = NoJwk
            /\ stdout = <<>>
            /\ pc = "failed" =>
                  /\ error = [msg |-> prepare_jwk(attemptLog[k].key).val, n |-> 0]
                  /\ error.msg \in DecodeErrors
                  /\ error.msg # AllFailedMsg

\* C12 witness: in attempt 2 the first of two servers returned a key that is
\* base64 and UTF-8 but no key material; the operation failed with the parse
\* error and the second server was not called again.
C12_Witness ==
    /\ Len(req.servers) = 2
    /\ attempt = 2
    /\ attemptLog = << [ok |-> TRUE, key |-> "notJson"] >>
    /\ calls = <<2, 1>>
    /\ delays = 1
    /\ pc = "failed"
    /\ error.msg = "Error in parsing the fetched key"


\* A step that invokes the resolver: the log of the attempt under way grows.
ResolverCall == Len(attemptLog') = Len(attemptLog) + 1

\* A step that starts an attempt after another.
NextAttempt == attempt >= 1 /\ attempt' = attempt + 1

\* C13: within an attempt the resolver is invoked on the servers in list order
\* from the first: the j-th call of an attempt is a call to server j, made only
\* when the calls to servers 1..j-1 of that attempt failed, so no server is
\* invoked after a success; and an attempt after another is started only when
\* every server of the list failed, and starts at the first server again.
C13_ListOrder ==
    /\ [](pc = "try" =>
            /\ index = Len(attemptLog) + 1
            /\ index <= Len(req.servers)
            /\ calls = CallsUpTo(attempt, index - 1)
            /\ \A i \in 1..Len(attemptLog) : ~attemptLog[i].ok)
    /\ [][ /\ ResolverCall =>
                /\ pc = "try"
                /\ index = Len(attemptLog) + 1
                /\ calls' = [calls EXCEPT ![index] = @ + 1]
                /\ \A i \in 1..Len(attemptLog) : ~attemptLog[i].ok
           /\ (pc = "try" /\ calls' # calls) => ResolverCall
           /\ NextAttempt =>
                /\ Len(attemptLog) = Len(req.servers)
                /\ \A i \in 1..Len(attemptLog) : ~attemptLog[i].ok
                /\ attemptLog' = <<>>
                /\ index' = 1
                /\ calls' = calls
                /\ pc' = "try" ]_vars

\* C13 witness: in a second attempt over two servers, after the first server
\* failed again, the second is the one to be called next.
C13_Witness ==
    /\ Len(req.servers) = 2
    /\ attempt = 2
    /\ pc = "try"
    /\ index = 2
    /\ attemptLog = << [ok |-> FALSE, key |-> ""] >>
    /\ calls = <<2, 1>>


\* A step in which the process sleeps.
Sleeps == delays' = delays + 1

\* C14: the delays of a run are one less than its attempts: a run that failed
\* under Finite(n) slept n - 1 times, a run whose resolution succeeded in attempt
\* j slept j - 1 times (none for attempt 1); and the process sleeps only at the
\* end of an attempt in which every server failed, going on to another attempt.
C14_DelaysBetweenAttempts ==
    /\ [](attempt >= 1 =>
            /\ delays = attempt - 1
            /\ (result.state = "err" /\ req.num_retries.kind = "Finite") =>
                  delays = req.num_retries.n - 1
            /\ (result.state = "ok" /\ attempt = 1) => delays = 0)
    /\ [](attempt = 0 => delays = 0)
    /\ [][ /\ Sleeps =>
                /\ pc = "attempt_failed"
                /\ Len(attemptLog) = Len(req.servers)
                /\ \A i \in 1..Len(attemptLog) : ~attemptLog[i].ok
                /\ NextAttempt
                /\ pc' = "try"
           /\ delays' # delays => (Sleeps \/ delays' = 0) ]_vars

\* C14 witness: servers [A, B], A failed and B succeeded in attempt 1: the key
\* is returned with no delay incurred.
C14_Witness ==
    /\ Len(req.servers) = 2
    /\ attempt = 1
    /\ Len(attemptLog) = 2
    /\ ~attemptLog[1].ok
    /\ attemptLog[2].ok
    /\ result.state = "ok"
    /\ delays = 0


\* C15: a failing server is never the outcome of resolution. Under Finite(n),
\* n >= 1, once an attempt was started, an error fetch_luks_key returns is its
\* own all-servers-failed error, never that of a server;
\* when a call of the attempt under way succeeded, after any number of failed
\* calls and failed attempts, it returned that call's key and the operation does
\* not end with the all-servers-failed error; and it returned that error only
\* when all n attempts were made and every server failed in each: every server
\* was called n times and every call of the last attempt failed.
C15_FailuresNotSurfaced ==
    (req.num_retries.kind = "Finite" /\ req.num_retries.n >= 1 /\ attempt >= 1) =>
        /\ attempt <= req.num_retries.n
        /\ result.state = "err" => result.msg = AllFailedMsg
        /\ \A k \in 1..Len(attemptLog) :
              attemptLog[k].ok =>
                  /\ result = [state |-> "ok", key |-> attemptLog[k].key, msg |-> "", n |-> 0]
                  /\ calls = CallsUpTo(attempt, k)
                  /\ error.msg # AllFailedMsg
        /\ (result.state = "err" \/ error.msg = AllFailedMsg) =>
              /\ result = [state |-> "err", key |-> "", msg |-> AllFailedMsg,
                           n |-> req.num_retries.n]
              /\ attempt = req.num_retries.n
              /\ calls = CallsUpTo(req.num_retries.n, Len(req.servers))
              /\ Len(attemptLog) = Len(req.servers)
              /\ \A i \in 1..Len(attemptLog) : ~attemptLog[i].ok

\* C15 witness: Finite(2), two servers; both failed in attempt 1, the first
\* failed again in attempt 2, the second succeeded and its key is the result.
C15_Witness ==
    /\ req.num_retries = Finite(2)
    /\ Len(req.servers) = 2
    /\ attempt = 2
    /\ calls = <<2, 2>>
    /\ Len(attemptLog) = 2
    /\ ~attemptLog[1].ok
    /\ attemptLog[2].ok
    /\ result.state = "ok"
    /\ result.key = attemptLog[2].key
    /\ pc = "done"


\* The errors of decrypt's steps after fetch_and_prepare_jwk returned a key.
CryptoErrors == {"Error creating decrypter", "Error decrypting JWE"}

\* decrypt is past fetch_and_prepare_jwk and its envelope does not open under
\* the key it prepared.
OpenFails ==
    /\ op = "decrypt"
    /\ pc \in {"jwk", "failed"}
    /\ jwk # NoJwk
    /\ LET decrypter == Dir_from_jwk(jwk, "decrypt")
       IN  ~decrypter.ok \/ ~deserialize_compact(input, decrypter.val).ok

\* C16: a decrypt whose resolution returned a key under which the envelope does
\* not open (it was sealed under another key, or was changed) ends in failure
\* with the error of the cryptographic step, with nothing written; the resolver
\* calls, attempts and delays it made are exactly those up to the successful
\* call that ended the resolution; the step that finds the envelope does not
\* open makes no call, attempt or delay; and nothing follows the failure.
C16_CryptoFailureIsTerminal ==
    /\ []((op = "decrypt" /\ pc = "failed" /\ jwk # NoJwk) =>
            /\ OpenFails
            /\ error.msg \in CryptoErrors
            /\ stdout = <<>>
            /\ result = [state |-> "ok", key |-> attemptLog[Len(attemptLog)].key,
                         msg |-> "", n |-> 0]
            /\ attemptLog[Len(attemptLog)].ok
            /\ calls = CallsUpTo(attempt, Len(attemptLog))
            /\ delays = attempt - 1)
    /\ [][ /\ (OpenFails /\ pc = "jwk") =>
                /\ pc' = "failed"
                /\ stdout' = <<>>
                /\ <<calls, attempt, index, attemptLog, delays, result>>' =
                       <<calls, attempt, index, attemptLog, delays, result>>
           /\ (op = "decrypt" /\ pc = "failed") => FALSE ]_vars

\* C16 witness: decrypt of the envelope encrypt sealed under "keyA" got "keyB"
\* from the second server in its second attempt, and failed in opening it.
C16_Witness ==
    /\ OpensSealed
    /\ sealed.key = "keyA"
    /\ result.state = "ok"
    /\ result.key = "keyB"
    /\ attempt = 2
    /\ calls = <<2, 2>>
    /\ pc = "failed"
    /\ error.msg = "Error decrypting JWE"
    /\ stdout = <<>>


\* The sum of the entries of a sequence of numbers.
RECURSIVE Sum(_)
Sum(s) == IF s = <<>> THEN 0 ELSE Head(s) + Sum(Tail(s))

\* fetch_luks_key was called under a Finite policy.
FiniteRun == req.num_retries.kind = "Finite" /\ EngineEntered

\* C17: under Finite(n) with s servers, a call of fetch_luks_key never makes
\* more than n * s resolver calls (at most n to any server) nor more than n - 1
\* delays (none when n = 0); when every resolver call returns it does return;
\* and what it returns with s >= 1 servers is a key or the all-servers-failed
\* error.
C17_FiniteTerminates ==
    /\ [](FiniteRun =>
            /\ Sum(calls) <= req.num_retries.n * Len(req.servers)
            /\ \A i \in 1..Len(calls) : calls[i] <= req.num_retries.n
            /\ delays <= (IF req.num_retries.n = 0 THEN 0 ELSE req.num_retries.n - 1)
            /\ (Len(req.servers) >= 1 /\ result.state = "err") => result.msg = AllFailedMsg)
    /\ (pc = "fetch" /\ req.num_retries.kind = "Finite")
           ~> (pc = "returned" /\ result.state \in {"ok", "err"})

\* C17 witness: under Finite(2) with two servers fetch_luks_key has returned the
\* all-servers-failed error after 2 * 2 resolver calls and one delay.
C17_Witness ==
    /\ req.num_retries = Finite(2)
    /\ Len(req.servers) = 2
    /\ pc = "returned"
    /\ result.state = "err"
    /\ Sum(calls) = 4
    /\ delays = 1


\* Server number i of the request answers with a key: no call to it logged in
\* the attempt under way failed. <>[]Up(i) says that from some point on every
\* call to server i succeeds.
Up(i) == i <= Len(req.servers) /\ (i <= Len(attemptLog) => attemptLog[i].ok)

\* fetch_luks_key was called under Infinity with a non-empty server list.
InfinityRun ==
    req.num_retries.kind = "Infinity" /\ Len(req.servers) > 0 /\ EngineEntered

\* C18: under Infinity with a non-empty server list fetch_luks_key never returns
\* an error, and a key it returns is the one the last resolver call of the last
\* attempt produced, every earlier call of that attempt having failed; and if
\* from some point on every call to one of the servers succeeds, every call of
\* fetch_luks_key returns, with a key.
C18_InfinityEventuallyReturns ==
    /\ [](InfinityRun =>
            /\ result.state # "err"
            /\ error.msg # AllFailedMsg
            /\ pc \in {"returned", "jwk", "done", "failed"} => result.state = "ok"
            /\ result.state = "ok" =>
                  /\ Len(attemptLog) >= 1
                  /\ attemptLog[Len(attemptLog)] = [ok |-> TRUE, key |-> result.key]
                  /\ \A j \in 1..(Len(attemptLog) - 1) : ~attemptLog[j].ok
                  /\ calls = CallsUpTo(attempt, Len(attemptLog)))
    /\ \A i \in 1..MaxServers :
          <>[]Up(i) =>
              ((pc = "fetch" /\ req.num_retries.kind = "Infinity" /\ Len(req.servers) > 0)
                  ~> (pc = "returned" /\ result.state = "ok"))

\* C18 witness: under Infinity with two servers, after more failed attempts
\* than DEFAULT_TRIES the second server answered and its key was returned.
C18_Witness ==
    /\ InfinityRun
    /\ Len(req.servers) = 2
    /\ attempt > DEFAULT_TRIES
    /\ pc = "returned"
    /\ Up(2)
    /\ ~Up(1)
    /\ result = [state |-> "ok", key |-> attemptLog[2].key, msg |-> "", n |-> 0]


\* The metadata of the envelope decrypt read cannot be reconstructed: the input
\* is no text, its header does not decode, the header has no clevis claim, or
\* the claim is not a ClevisHeader: a field is missing or ill-typed, or its
\* num_retries is 0, negative or a string other than "infinity".
NoMetadata ==
    \/ ~input.utf8
    \/ ~input.header_ok
    \/ ~input.has_clevis
    \/ ~input.clevis.wellformed
    \/ BadNumRetries(input.clevis.num_retries)

\* C19: a decrypt of an envelope whose metadata cannot be reconstructed has
\* failed with the error of the step that could not be done, before calling
\* fetch_luks_key: no request was built, no resolver call and no delay
\* happened, nothing was written.
C19_NoMetadataNoResolution ==
    (op = "decrypt" /\ NoMetadata) =>
        /\ pc = "failed"
        /\ error.msg = (CASE ~input.utf8 -> "Input is not valid UTF-8"
                          [] input.utf8 /\ ~input.header_ok -> "Error decoding header"
                          [] input.utf8 /\ input.header_ok /\ ~input.has_clevis ->
                                 "Error getting clevis claim"
                          [] OTHER -> "Error deserializing clevis header")
        /\ ~EngineEntered
        /\ hdr_clevis = NoHeader
        /\ req = NoReq
        /\ attempt = 0
        /\ calls = <<>>
        /\ attemptLog = <<>>
        /\ delays = 0
        /\ stdout = <<>>

\* C19 witness: decrypt has failed, without resolution, on an envelope whose
\* metadata is complete and names a server but has num_retries "forever".
C19_Witness ==
    /\ op = "decrypt"
    /\ input.utf8 /\ input.header_ok /\ input.has_clevis /\ input.clevis.wellformed
    /\ Len(input.clevis.servers) > 0
    /\ input.clevis.num_retries = JStr("forever")
    /\ pc = "failed"
    /\ error.msg = "Error deserializing clevis header"
    /\ ~EngineEntered
    /\ calls = <<>>


\* C20: in no run of encrypt or decrypt is the resolved key string, or the key
\* material decoded from it, written to the diagnostic stream or to the output
\* stream: no key-bearing line is on the diagnostic stream, and the output
\* stream holds nothing but the envelope encrypt sealed or the payload decrypt
\* opened.
C20_KeyNotDisclosed ==
    /\ stderr = {}
    /\ \A i \in 1..Len(stdout) :
          /\ op = "encrypt" => stdout[i] = sealed.envelope
          /\ op = "decrypt" => stdout[i] = input.payload

====
